---- MODULE Spec2Model ----
(***************************************************************************)
(* A model of the finite-state-machine engine of fsm.go: the Ruleset (a    *)
(* map from Transition to a list of Guards), the concurrent permission     *)
(* check Ruleset.Permitted, and Machine.Transition.                        *)
(*                                                                         *)
(* One Machine and the Ruleset it points to are modelled.  A call of       *)
(* Permitted or Transition is a record of the variable calls; the guard    *)
(* goroutines a call launches are the entries of its field tasks.  A       *)
(* goroutine first runs its guard and then blocks on the send to the       *)
(* unbuffered channel of its call until the caller receives from it.       *)
(*                                                                         *)
(* The caller is single-threaded: it registers the rules first, and then   *)
(* makes its calls one after the other.  The goroutines a call leaves      *)
(* behind when it returns early run on beside the later calls.             *)
(*                                                                         *)
(* Spec is that caller with any rules.  ScenarioSpec fixes the rules of    *)
(* CreateRuleset(T{idle, running}, T{running, done}).  FairSpec adds a     *)
(* guard that never returns and fair scheduling of the goroutines.         *)
(* RaceSpec lets Transition calls on the Machine overlap.                  *)
(***************************************************************************)
EXTENDS Integers, Sequences, FiniteSets, TLC

\* ---------------------------------------------------------------- bounds
\* Number of Transition calls made in one behaviour of RaceSpec.
RaceCalls == 3
\* Number of Permitted calls made in one behaviour of FairSpec.
FairCalls == 2
\* Number of Permitted / Transition calls made in one behaviour of Spec.
MaxCalls == 2
\* Largest number of guards the Ruleset holds, over all its Transitions.
MaxGuards == 2
\* Number of Transition calls made in one behaviour of ScenarioSpec.
ScenarioCalls == 4

\* ------------------------------------------------------- identities, State
\* The identity values used as inputs.
IDs == {"idle", "running", "done"}

\* State wraps an identity value; ID is its only accessor.
NewState(id) == [id |-> id]
ID(s) == s.id
States == {NewState(id) : id \in IDs}

\* T{O, E}: the default Transition, a comparable pair of identities.
T(o, e) == [O |-> o, E |-> e]
Origin(t) == NewState(t.O)
Exit(t) == NewState(t.E)
\* The Transitions rules are registered for.
RuleTransitions == {T("idle", "running"), T("running", "done"), T("done", "running")}

\* ------------------------------------------------------------------ errors
\* An error value is nil or carries a message; a message is the sequence of
\* the pieces fmt.Errorf writes, so that the arguments can be read back.
Nil == [isNil |-> TRUE, msg |-> <<>>]
ErrorsNew(text) == [isNil |-> FALSE, msg |-> <<text>>]

errTransitionFormat == <<"Cannot transition from ", "%s", " to ", "%s">>
errNoRulesFormat == <<"No rules found for ", "%s", " to ", "%s">>
errGuardFailedFormat == <<"Guard failed from ", "%s", " to ", "%s", ": ", "%s">>

RECURSIVE Sprintf(_, _)
Sprintf(format, args) ==
    IF format = <<>> THEN <<>>
    ELSE IF Head(format) = "%s"
         THEN IF args = <<>>
              THEN <<"%!s(MISSING)">> \o Sprintf(Tail(format), args)
              ELSE Head(args) \o Sprintf(Tail(format), Tail(args))
         ELSE <<Head(format)>> \o Sprintf(Tail(format), args)

Errorf(format, args) == [isNil |-> FALSE, msg |-> Sprintf(format, args)]

\* err.Error()
ErrorText(err) == err.msg

\* ------------------------------------------------------------------ guards
\* A Guard is a function value.  Two kinds occur: the closure AddTransition
\* builds, which captures its Transition t, and guards supplied by the
\* caller, taken here to be constant functions (always nil, or always the
\* same error).
DefaultGuard(t) == [kind |-> "default", t |-> t, err |-> Nil]
ConstGuard(err) == [kind |-> "const", t |-> T("", ""), err |-> err]

AlwaysPass == ConstGuard(Nil)
AlwaysFail(reason) == ConstGuard(ErrorsNew(reason))
CallerGuards == {AlwaysPass, AlwaysFail("denied"), AlwaysFail("locked")}

\* A caller's guard whose body has no return (it waits forever).
NeverReturns == [kind |-> "never", t |-> T("", ""), err |-> Nil]
Returns(g) == g.kind # "never"
FairGuards == {AlwaysPass, AlwaysFail("denied"), NeverReturns}

\* Mutant: the closure compares start with the exit of its Transition.
DefaultGuardBodyExit(t, start, goal) ==
    IF ID(start) # ID(Exit(t))
    THEN Errorf(errTransitionFormat, << <<ID(start)>>, <<ID(goal)>> >>)
    ELSE Nil

\* The body of the closure of AddTransition.
DefaultGuardBody(t, start, goal) ==
    IF ID(start) # ID(Origin(t))
    THEN Errorf(errTransitionFormat, << <<ID(start)>>, <<ID(goal)>> >>)
    ELSE Nil

\* g(start, goal)
GuardApply(g, start, goal) ==
    IF g.kind = "default" THEN DefaultGuardBody(g.t, start, goal) ELSE g.err

\* ----------------------------------------------------------------- Ruleset
\* A Ruleset is a function from its keys (Transitions) to guard lists.
EmptyRuleset == [t \in {} |-> <<>>]

\* Mutant: the lookup matches on the exit alone.
MapGetByExit(r, t) ==
    IF \E k \in DOMAIN r : k.E = t.E
    THEN [ok |-> TRUE, guards |-> r[CHOOSE k \in DOMAIN r : k.E = t.E]]
    ELSE [ok |-> FALSE, guards |-> <<>>]

\* Mutant: a Transition is also found under the key of its reverse.
MapGetEitherWay(r, t) ==
    IF t \in DOMAIN r THEN [ok |-> TRUE, guards |-> r[t]]
    ELSE IF T(t.E, t.O) \in DOMAIN r THEN [ok |-> TRUE, guards |-> r[T(t.E, t.O)]]
    ELSE [ok |-> FALSE, guards |-> <<>>]

\* guards, ok := r[t]
MapGet(r, t) ==
    IF t \in DOMAIN r THEN [ok |-> TRUE, guards |-> r[t]]
    ELSE [ok |-> FALSE, guards |-> <<>>]

\* r[t] read as a value: the nil slice when t is no key.
Lookup(r, t) == IF t \in DOMAIN r THEN r[t] ELSE <<>>

\* r[t] = gs
Store(r, t, gs) == [k \in (DOMAIN r) \cup {t} |-> IF k = t THEN gs ELSE r[k]]

\* Mutant: a guard the list already holds is not appended again.
RECURSIVE AddRuleDedup(_, _, _)
AddRuleDedup(r, t, guards) ==
    IF guards = <<>> THEN r
    ELSE IF \E i \in 1..Len(Lookup(r, t)) : Lookup(r, t)[i] = Head(guards)
         THEN AddRuleDedup(r, t, Tail(guards))
         ELSE AddRuleDedup(Store(r, t, Append(Lookup(r, t), Head(guards))), t, Tail(guards))

RECURSIVE AddRule(_, _, _)
AddRule(r, t, guards) ==
    IF guards = <<>> THEN r
    ELSE AddRule(Store(r, t, Append(Lookup(r, t), Head(guards))), t, Tail(guards))

AddTransition(r, t) == AddRule(r, t, <<DefaultGuard(t)>>)

RECURSIVE AddTransitions(_, _)
AddTransitions(r, transitions) ==
    IF transitions = <<>> THEN r
    ELSE AddTransitions(AddTransition(r, Head(transitions)), Tail(transitions))

\* Mutant: the Ruleset is made anew in every iteration, so that only the last
\* Transition stays registered.
CreateRulesetLast(transitions) ==
    IF transitions = <<>> THEN EmptyRuleset
    ELSE AddTransition(EmptyRuleset, transitions[Len(transitions)])

CreateRuleset(transitions) == AddTransitions(EmptyRuleset, transitions)

\* ------------------------------------------------------------------- state
VARIABLES
    rules,     \* the Ruleset the Machine points to (Machine.Rules)
    State,     \* Machine.State
    nCalls,    \* number of Permitted / Transition calls made so far
    calls      \* the calls on record, oldest first (see Forget)

vars == <<rules, State, nCalls, calls>>

\* The State a Machine is constructed with.
InitialState == NewState("idle")

\* Sequences over S of length 0..n.
SeqUpTo(S, n) == UNION {[1..k -> S] : k \in 0..n}

\* A goroutine of call cs[i] has not finished.
Unfinished(cs, i) == \E k \in 1..Len(cs[i].tasks) : cs[i].tasks[k].st # "done"

\* The record of a returned call is a log, not program state: what the
\* program still holds of it is its unfinished goroutines.  When a call
\* (start, goal) is made, Spec keeps on record the call before it, if that
\* call has unfinished goroutines or had the same arguments, and forgets the
\* older ones; ScenarioSpec keeps every call.
KeepCall(cs, i, start, goal) ==
    /\ i = Len(cs)
    /\ \/ Unfinished(cs, i)
       \/ cs[i].start = start /\ cs[i].goal = goal

RECURSIVE ForgetFrom(_, _, _, _)
ForgetFrom(cs, i, start, goal) ==
    IF i > Len(cs) THEN <<>>
    ELSE (IF KeepCall(cs, i, start, goal) THEN <<cs[i]>> ELSE <<>>)
         \o ForgetFrom(cs, i + 1, start, goal)

Forget(cs, start, goal) == ForgetFrom(cs, 1, start, goal)

\* ---------------------------------------------------------------- Permitted
\* Mutant: one channel shared by all calls.
MakeChanShared(n) == 1

\* make(chan error): a channel no earlier call holds, named by the number of
\* the call that makes it.
MakeChan(n) == n
NoChan == 0

\* The go statements of Permitted: one goroutine per position of guards, each
\* given its guard as argument g; start and goal are the variables of the
\* call, which the goroutines share.
Launch(guards) ==
    [i \in 1..Len(guards) |->
        [st |-> "running", g |-> guards[i], with |-> <<>>, val |-> Nil]]

\* Mutant: the return after the lookup has failed yields nil.
PermittedBeginNoError(r, start, goal, n) ==
    LET found == MapGet(r, T(ID(start), ID(goal))) IN
    IF found.ok
    THEN [ok |-> TRUE, guards |-> found.guards, ch |-> MakeChan(n),
          tasks |-> Launch(found.guards), got |-> <<>>,
          status |-> IF Len(found.guards) = 0 THEN "returned" ELSE "collecting",
          perm |-> Nil]
    ELSE [ok |-> FALSE, guards |-> <<>>, ch |-> NoChan, tasks |-> <<>>,
          got |-> <<>>, status |-> "returned", perm |-> Nil]

\* Permitted up to its first receive: the lookup of attempt, and either the
\* no-rules return or the launch of the guards of the matched Transition.
\* n is the number of this call.
PermittedBegin(r, start, goal, n) ==
    LET attempt == T(ID(start), ID(goal))
        found == MapGet(r, attempt)
    IN
    IF found.ok
    THEN LET guards == found.guards IN
         [ok |-> TRUE, guards |-> guards, ch |-> MakeChan(n),
          tasks |-> Launch(guards), got |-> <<>>,
          status |-> IF Len(guards) = 0 THEN "returned" ELSE "collecting",
          perm |-> Nil]
    ELSE [ok |-> FALSE, guards |-> <<>>, ch |-> NoChan, tasks |-> <<>>,
          got |-> <<>>, status |-> "returned",
          perm |-> Errorf(errNoRulesFormat, << <<ID(start)>>, <<ID(goal)>> >>)]

\* The error Permitted returns for the failing result err.
GuardFailed(start, goal, err) ==
    Errorf(errGuardFailedFormat, << <<ID(start)>>, <<ID(goal)>>, ErrorText(err) >>)

\* Mutant: a failing result is skipped over.
PermittedCollectSwallow(start, goal, guards, collected, err) ==
    IF collected + 1 >= Len(guards)
    THEN [status |-> "returned", perm |-> Nil]
    ELSE [status |-> "collecting", perm |-> Nil]

\* Mutant: the test of the result is inverted.
PermittedCollectInverted(start, goal, guards, collected, err) ==
    IF err.isNil
    THEN [status |-> "returned", perm |-> GuardFailed(start, goal, err)]
    ELSE IF collected + 1 >= Len(guards)
         THEN [status |-> "returned", perm |-> Nil]
         ELSE [status |-> "collecting", perm |-> Nil]

\* Mutant: Permitted returns on the first result, whatever it is.
PermittedCollectFirst(start, goal, guards, collected, err) ==
    IF ~err.isNil
    THEN [status |-> "returned", perm |-> GuardFailed(start, goal, err)]
    ELSE [status |-> "returned", perm |-> Nil]

\* Mutant: the collection loop expects one result more than there are guards.
PermittedCollectOneMore(start, goal, guards, collected, err) ==
    IF ~err.isNil
    THEN [status |-> "returned", perm |-> GuardFailed(start, goal, err)]
    ELSE IF collected + 1 > Len(guards)
         THEN [status |-> "returned", perm |-> Nil]
         ELSE [status |-> "collecting", perm |-> Nil]

\* Mutant: the collection loop runs one iteration short.
PermittedCollectShort(start, goal, guards, collected, err) ==
    IF ~err.isNil
    THEN [status |-> "returned", perm |-> GuardFailed(start, goal, err)]
    ELSE IF collected + 1 >= Len(guards) - 1
         THEN [status |-> "returned", perm |-> Nil]
         ELSE [status |-> "collecting", perm |-> Nil]

\* Mutant: Permitted waits for every result and tests the last one only.
PermittedCollectLast(start, goal, guards, collected, err) ==
    IF collected + 1 >= Len(guards)
    THEN [status |-> "returned",
          perm |-> IF err.isNil THEN Nil ELSE GuardFailed(start, goal, err)]
    ELSE [status |-> "collecting", perm |-> Nil]

\* One iteration of the collection loop of Permitted, having received err as
\* the (collected + 1)-th result: the return on a failing result, the return
\* of nil after the last iteration, or the next iteration.
PermittedCollect(start, goal, guards, collected, err) ==
    IF ~err.isNil
    THEN [status |-> "returned", perm |-> GuardFailed(start, goal, err)]
    ELSE IF collected + 1 >= Len(guards)
         THEN [status |-> "returned", perm |-> Nil]
         ELSE [status |-> "collecting", perm |-> Nil]

\* --------------------------------------------------------------- Transition
\* Mutant: the Machine moves whatever Permitted returned.
TransitionReturnAlways(state, goal, err) ==
    [State |-> goal, ret |-> IF err.isNil THEN Nil ELSE err]

\* Mutant: the test of the error is inverted.
TransitionReturnInverted(state, goal, err) ==
    IF err.isNil THEN [State |-> state, ret |-> Nil] ELSE [State |-> goal, ret |-> err]

\* The body of Machine.Transition after Permitted has returned err: the new
\* Machine.State and the value Transition returns.
TransitionReturn(state, goal, err) ==
    IF err.isNil
    THEN [State |-> goal, ret |-> Nil]
    ELSE [State |-> state, ret |-> err]

\* Mutant: a standalone Permitted that returns nil moves the Machine as well.
ReturnCommits(kind, state, goal, perm) == TransitionReturn(state, goal, perm)

\* The end of a call whose Permitted has returned perm: a standalone
\* Permitted returns perm and touches no Machine.
Return(kind, state, goal, perm) ==
    IF kind = "Transition"
    THEN TransitionReturn(state, goal, perm)
    ELSE [State |-> state, ret |-> perm]

Returned(c) == calls[c].status = "returned"
Busy == \E c \in 1..Len(calls) : ~Returned(c)

\* The numbers of the calls that have not returned.
InFlight == {calls[c].n : c \in {d \in 1..Len(calls) : ~Returned(d)}}

\* A call is entered and runs to its first receive or to its return.  The
\* record notes the calls in flight at that moment (inflight) and the State
\* of the Machine as it is when the call returns (pre).
Enter(kind, start, goal, limit, log) ==
    /\ nCalls < limit
    /\ nCalls' = nCalls + 1
    /\ LET n == nCalls + 1
           p == PermittedBegin(rules, start, goal, n)
           out == Return(kind, State, goal, p.perm)
       IN /\ calls' = Append(log,
                 [n |-> n, kind |-> kind, start |-> start, goal |-> goal, ok |-> p.ok,
                  guards |-> p.guards, ch |-> p.ch, tasks |-> p.tasks,
                  got |-> p.got, status |-> p.status, perm |-> p.perm,
                  inflight |-> InFlight, pre |-> State,
                  ret |-> IF p.status = "returned" THEN out.ret ELSE Nil,
                  post |-> IF p.status = "returned" THEN out.State ELSE State])
          /\ State' = IF p.status = "returned" THEN out.State ELSE State
    /\ UNCHANGED rules

\* A call from the (single-threaded) caller: it starts when the caller's
\* previous call has returned.
Call(kind, start, goal, limit, log) ==
    /\ ~Busy
    /\ Enter(kind, start, goal, limit, log)

\* r.Permitted(start, goal), called on its own.
CallPermitted(start, goal) == Call("Permitted", start, goal, MaxCalls, Forget(calls, start, goal))

\* m.Transition(goal): Permitted is called with the current Machine.State.
CallTransition(goal) == Call("Transition", State, goal, MaxCalls, Forget(calls, State, goal))

\* The same call in the scenario, where every call stays on record.
ScenarioTransition(goal) == Call("Transition", State, goal, ScenarioCalls, calls)

\* Mutant: the goroutine passes the State of the Machine as it is when the
\* guard runs.
GuardArgsMachine(c) == <<State, calls[c].goal>>

\* The arguments a goroutine of call c gives its guard: start and goal, the
\* parameters of the Permitted call, which the closure captures.
GuardArgs(c) == <<calls[c].start, calls[c].goal>>

\* A guard goroutine runs its guard; it then blocks sending the result.
GuardRun(c, i) ==
    /\ calls[c].tasks[i].st = "running"
    /\ Returns(calls[c].tasks[i].g)
    /\ LET k == calls[c].tasks[i]
           args == GuardArgs(c)
       IN calls' = [calls EXCEPT ![c].tasks[i].st = "sending",
                                 ![c].tasks[i].with = args,
                                 ![c].tasks[i].val = GuardApply(k.g, args[1], args[2])]
    /\ UNCHANGED <<rules, State, nCalls>>

\* The rendezvous on an unbuffered channel: call c, blocked in its receive,
\* takes the result goroutine i of call d is blocked sending on the same
\* channel.  The caller then runs to its next receive or to its return.
Receive(c, d, i) ==
    /\ ~Returned(c)
    /\ calls[d].tasks[i].st = "sending"
    /\ calls[d].ch = calls[c].ch
    /\ LET cl == calls[c]
           err == calls[d].tasks[i].val
           step == PermittedCollect(cl.start, cl.goal, cl.guards, Len(cl.got), err)
           out == Return(cl.kind, State, cl.goal, step.perm)
           sent == [calls EXCEPT ![d].tasks[i].st = "done"]
       IN /\ calls' = [sent EXCEPT
                 ![c].got = Append(@, [from |-> calls[d].n, pos |-> i, val |-> err]),
                 ![c].status = step.status,
                 ![c].perm = step.perm,
                 ![c].pre = IF step.status = "returned" THEN State ELSE @,
                 ![c].ret = IF step.status = "returned" THEN out.ret ELSE @,
                 ![c].post = IF step.status = "returned" THEN out.State ELSE @]
          /\ State' = IF step.status = "returned" THEN out.State ELSE State
    /\ UNCHANGED <<rules, nCalls>>

\* ------------------------------------------------------- Ruleset operations
RECURSIVE SumLen(_, _)
SumLen(r, keys) ==
    IF keys = {} THEN 0
    ELSE LET t == CHOOSE k \in keys : TRUE IN Len(r[t]) + SumLen(r, keys \ {t})

WithinBounds(r) == SumLen(r, DOMAIN r) <= MaxGuards

\* CreateRuleset(transitions...): the construction of the Ruleset.
DoCreateRuleset(transitions) ==
    /\ nCalls = 0 /\ rules = EmptyRuleset
    /\ WithinBounds(CreateRuleset(transitions))
    /\ rules' = CreateRuleset(transitions)
    /\ UNCHANGED <<State, nCalls, calls>>

\* The rules are registered before the Machine is used: Permitted reads the
\* map without synchronization.
DoAddRule(t, guards) ==
    /\ nCalls = 0
    /\ WithinBounds(AddRule(rules, t, guards))
    /\ rules' = AddRule(rules, t, guards)
    /\ UNCHANGED <<State, nCalls, calls>>

DoAddTransition(t) ==
    /\ nCalls = 0
    /\ WithinBounds(AddTransition(rules, t))
    /\ rules' = AddTransition(rules, t)
    /\ UNCHANGED <<State, nCalls, calls>>

\* ------------------------------------------------------------ specification
Init ==
    /\ rules = EmptyRuleset
    /\ State = InitialState
    /\ nCalls = 0
    /\ calls = <<>>

RunGuard == \E c \in 1..Len(calls) : \E i \in 1..Len(calls[c].tasks) : GuardRun(c, i)

Rendezvous ==
    \E c \in 1..Len(calls) : \E d \in 1..Len(calls) :
        \E i \in 1..Len(calls[d].tasks) : Receive(c, d, i)

Next ==
    \/ \E ts \in SeqUpTo(RuleTransitions, MaxGuards) : DoCreateRuleset(ts)
    \/ \E t \in RuleTransitions : \E gs \in SeqUpTo(CallerGuards, MaxGuards) : DoAddRule(t, gs)
    \/ \E t \in RuleTransitions : DoAddTransition(t)
    \/ \E s \in States : \E g \in States : CallPermitted(s, g)
    \/ \E g \in States : CallTransition(g)
    \/ RunGuard
    \/ Rendezvous

Spec == Init /\ [][Next]_vars

\* The scenario: the Ruleset of CreateRuleset(T{idle, running}, T{running,
\* done}), a Machine starting at idle, and Transition calls only.
ScenarioRules == CreateRuleset(<<T("idle", "running"), T("running", "done")>>)

ScenarioInit ==
    /\ rules = ScenarioRules
    /\ State = InitialState
    /\ nCalls = 0
    /\ calls = <<>>

ScenarioNext ==
    \/ \E g \in States : ScenarioTransition(g)
    \/ RunGuard
    \/ Rendezvous

ScenarioSpec == ScenarioInit /\ [][ScenarioNext]_vars

\* Transition calls on one Machine from several threads of the caller, with
\* no serialization: a call may be entered while others are in flight.  The
\* Ruleset lets the Machine leave idle for running or for done.
RaceRules == CreateRuleset(<<T("idle", "running"), T("idle", "done")>>)

RaceInit ==
    /\ rules = RaceRules
    /\ State = InitialState
    /\ nCalls = 0
    /\ calls = <<>>

\* Mutant: Transition asks Permitted about the State the Machine was made
\* with, not about its current State.
RaceTransitionStale(goal) == Enter("Transition", InitialState, goal, RaceCalls, calls)

RaceTransition(goal) == Enter("Transition", State, goal, RaceCalls, calls)

RaceNext ==
    \/ \E g \in States : RaceTransition(g)
    \/ RunGuard
    \/ Rendezvous

RaceSpec == RaceInit /\ [][RaceNext]_vars

\* The goroutines under a fair scheduler: a Ruleset with one Transition,
\* whose guards may include one that never returns, and Permitted calls
\* from the initial state, all on record.  A goroutine that can run does
\* run, and a send and a receive that meet on a channel do rendezvous.
FairRulesets ==
    {AddRule(EmptyRuleset, T("idle", "running"), gs) :
        gs \in SeqUpTo(FairGuards, MaxGuards) \ {<<>>}}

FairInit ==
    /\ rules \in FairRulesets
    /\ State = InitialState
    /\ nCalls = 0
    /\ calls = <<>>

\* The goals asked for: one with rules from the initial state, one without.
FairGoals == {NewState("running"), NewState("done")}

FairPermitted(goal) == Call("Permitted", InitialState, goal, FairCalls, calls)

FairNext ==
    \/ \E g \in FairGoals : FairPermitted(g)
    \/ RunGuard
    \/ Rendezvous

FairSpec ==
    FairInit /\ [][FairNext]_vars /\ WF_vars(RunGuard) /\ WF_vars(Rendezvous)

\* ------------------------------------------------------------------ claims
\* The classification of an error value by the format that produced it.
Class(err) ==
    IF err.isNil THEN "nil"
    ELSE IF Head(err.msg) = Head(errNoRulesFormat) THEN "norules"
    ELSE IF Head(err.msg) = Head(errGuardFailedFormat) THEN "guardfailed"
    ELSE "other"

OnRecord == 1..Len(calls)
Attempt(c) == T(ID(calls[c].start), ID(calls[c].goal))
\* What guard i of call c answers for the arguments of the call.
Answer(c, i) == GuardApply(calls[c].guards[i], calls[c].start, calls[c].goal)
\* A call returns in this step: the latest call of the next state has
\* returned, and it is new or was still collecting.
ReturnsNow ==
    /\ calls' # <<>>
    /\ calls'[Len(calls')].status = "returned"
    /\ \/ nCalls' # nCalls
       \/ calls # <<>> /\ calls[Len(calls)].status = "collecting"

\* C1: a Transition call that returns sets Machine.State to goal and returns
\* nil when Permitted(current State, goal) returned nil, leaves Machine.State
\* as it was and returns Permitted's error unchanged otherwise; no other step
\* changes Machine.State.
C1_TransitionCommitsIffPermitted ==
    [][ LET c == calls'[Len(calls')] IN
        IF ReturnsNow /\ c.kind = "Transition"
        THEN /\ c.start = State
             /\ c.perm.isNil => State' = c.goal /\ c.ret = Nil
             /\ ~c.perm.isNil => State' = State /\ c.ret = c.perm
        ELSE State' = State ]_vars

\* A Transition that failed after an earlier one had moved the Machine.
C1_Witness ==
    /\ nCalls = 2 /\ calls # <<>>
    /\ LET c == calls[Len(calls)] IN
       /\ c.kind = "Transition" /\ c.status = "returned"
       /\ Class(c.ret) = "guardfailed"
       /\ State # InitialState /\ State # c.goal

\* C2: when (start, goal) is no key of the Ruleset, Permitted has returned the
\* no-rules error, not a guard-failure error, and has launched no guard.
C2_NoKeyIsNoRules ==
    \A c \in OnRecord :
        Attempt(c) \notin DOMAIN rules =>
            /\ calls[c].status = "returned"
            /\ Class(calls[c].perm) = "norules"
            /\ calls[c].tasks = <<>> /\ calls[c].got = <<>>

\* A call for an absent key whose goal is the exit of a registered Transition.
C2_Witness ==
    \E c \in OnRecord : \E t \in DOMAIN rules :
        /\ Attempt(c) \notin DOMAIN rules
        /\ t.E = ID(calls[c].goal)
        /\ Class(calls[c].perm) = "norules"

\* C3: for a Transition t registered by AddTransition (or CreateRuleset) and
\* given no other guards, a returned Permitted(Origin(t), Exit(t)) is nil.
C3_RegisteredTransitionPermitted ==
    \A c \in OnRecord : \A t \in DOMAIN rules :
        /\ \A i \in 1..Len(rules[t]) : rules[t][i] = DefaultGuard(t)
        /\ calls[c].start = Origin(t) /\ calls[c].goal = Exit(t)
        /\ calls[c].status = "returned"
        => calls[c].perm = Nil

C3_Witness ==
    \E c \in OnRecord :
        /\ Attempt(c) \in DOMAIN rules
        /\ rules[Attempt(c)] = <<DefaultGuard(Attempt(c))>>
        /\ calls[c].status = "returned" /\ calls[c].perm = Nil
        /\ Len(calls[c].got) = 1

\* Transition t carries the default guard AddTransition installs, and call c
\* is Permitted(x, Exit(t)) for an x other than Origin(t).
OtherOrigin(c, t) ==
    /\ \E i \in 1..Len(rules[t]) : rules[t][i] = DefaultGuard(t)
    /\ ID(calls[c].start) # ID(Origin(t))
    /\ ID(calls[c].goal) = ID(Exit(t))
    /\ calls[c].status = "returned"

\* C4 as stated: Permitted(x, Exit(t)) with x other than Origin(t) fails with
\* a guard-failure error.
C4_AsStated ==
    \A c \in OnRecord : \A t \in DOMAIN rules :
        OtherOrigin(c, t) => Class(calls[c].perm) = "guardfailed"

\* C4 as amended: Permitted(x, Exit(t)) with x other than Origin(t) never runs
\* the default guard of t and never returns its identity-mismatch message; it
\* fails with the no-rules error when (x, Exit(t)) is no key, and is decided
\* by the guards of the key (x, Exit(t)) otherwise.
C4_OtherOriginLooksUpOwnKey ==
    \A c \in OnRecord : \A t \in DOMAIN rules :
        OtherOrigin(c, t) =>
            /\ \A i \in 1..Len(calls[c].tasks) : calls[c].tasks[i].g # DefaultGuard(t)
            /\ \A k \in 1..Len(calls[c].perm.msg) :
                   calls[c].perm.msg[k] # Head(errTransitionFormat)
            /\ IF Attempt(c) \in DOMAIN rules
               THEN /\ calls[c].guards = rules[Attempt(c)]
                    /\ (\A i \in 1..Len(calls[c].guards) : Answer(c, i) = Nil)
                           => calls[c].perm = Nil
               ELSE Class(calls[c].perm) = "norules"

\* With (idle, running) and (done, running) registered, Permitted(done,
\* running) was decided by the guards of (done, running) and returned nil.
C4_Witness ==
    \E c \in OnRecord : \E t \in DOMAIN rules :
        /\ OtherOrigin(c, t)
        /\ Attempt(c) \in DOMAIN rules
        /\ calls[c].perm = Nil /\ Len(calls[c].got) = 1

\* The first failing result call c collected, as an index of got (0: none).
FirstFailing(c) ==
    IF \E k \in 1..Len(calls[c].got) : ~calls[c].got[k].val.isNil
    THEN CHOOSE k \in 1..Len(calls[c].got) :
            /\ ~calls[c].got[k].val.isNil
            /\ \A j \in 1..(k - 1) : calls[c].got[j].val.isNil
    ELSE 0

\* C5: when a guard of the matched Transition fails for (start, goal), every
\* returned Permitted(start, goal) is a guard-failure error, whatever order
\* the guards finished in, and its message ends with the message of the first
\* failing result received, which a guard of this call produced.
C5_FailingGuardFails ==
    \A c \in OnRecord :
        /\ calls[c].ok /\ calls[c].status = "returned"
        /\ \E i \in 1..Len(calls[c].guards) : ~Answer(c, i).isNil
        => LET k == FirstFailing(c)
               msg == calls[c].perm.msg
           IN /\ Class(calls[c].perm) = "guardfailed"
              /\ k # 0
              /\ calls[c].got[k].from = calls[c].n
              /\ calls[c].got[k].val = Answer(c, calls[c].got[k].pos)
              /\ msg[2] = ID(calls[c].start) /\ msg[4] = ID(calls[c].goal)
              /\ SubSeq(msg, 6, Len(msg)) = ErrorText(calls[c].got[k].val)

\* A passing guard answered first, the failing one second.
C5_Witness ==
    \E c \in OnRecord :
        /\ calls[c].status = "returned" /\ Len(calls[c].got) = 2
        /\ calls[c].got[1].val.isNil
        /\ Class(calls[c].perm) = "guardfailed"

\* C6: every result a returned Permitted collected was produced by a guard
\* this same call launched, no guard twice; and a Permitted that returned nil
\* collected exactly N results, one per guard of the list, all nil.
C6_CollectsOwnResults ==
    \A c \in OnRecord :
        calls[c].status = "returned" =>
            LET got == calls[c].got
                N == Len(calls[c].guards)
            IN /\ \A k \in 1..Len(got) :
                    /\ got[k].from = calls[c].n
                    /\ got[k].pos \in 1..N
                    /\ \A j \in 1..Len(got) : j # k => got[j].pos # got[k].pos
               /\ calls[c].perm = Nil =>
                    /\ calls[c].ok
                    /\ Len(got) = N
                    /\ \A k \in 1..N : got[k].val = Nil
                    /\ \A i \in 1..N : calls[c].tasks[i].st = "done"

\* A call has returned on results of its own goroutines while a goroutine of
\* the call before it, which returned early, still holds a result nobody
\* received.
C6_Witness ==
    /\ Len(calls) = 2
    /\ calls[1].status = "returned"
    /\ \E i \in 1..Len(calls[1].tasks) : calls[1].tasks[i].st = "sending"
    /\ calls[2].status = "returned" /\ Len(calls[2].got) >= 1

\* C7: when every guard of the matched Transition succeeds for (start, goal),
\* a returned Permitted(start, goal) is nil, for every length of the list and
\* every order of arrival.
C7_AllPassPermitted ==
    \A c \in OnRecord :
        /\ calls[c].ok /\ calls[c].status = "returned"
        /\ \A i \in 1..Len(calls[c].guards) : Answer(c, i).isNil
        => calls[c].perm = Nil

\* Two guards, the second registered answering first.
C7_Witness ==
    \E c \in OnRecord :
        /\ calls[c].status = "returned" /\ calls[c].perm = Nil
        /\ Len(calls[c].guards) = 2
        /\ calls[c].got[1].pos = 2

\* C8: two returned Permitted calls with the same (start, goal) on the same
\* Ruleset are classified alike (nil, no-rules, guard-failure), whatever
\* order their guards finished in.
C8_SameArgumentsSameClass ==
    \A c \in OnRecord : \A d \in OnRecord :
        /\ calls[c].status = "returned" /\ calls[d].status = "returned"
        /\ calls[c].start = calls[d].start /\ calls[c].goal = calls[d].goal
        => Class(calls[c].perm) = Class(calls[d].perm)

\* The same call twice, its guards answering in different orders.
C8_Witness ==
    /\ Len(calls) = 2
    /\ calls[1].status = "returned" /\ calls[2].status = "returned"
    /\ calls[1].start = calls[2].start /\ calls[1].goal = calls[2].goal
    /\ calls[1].got # <<>> /\ calls[2].got # <<>>
    /\ calls[1].got[1].pos # calls[2].got[1].pos

\* C10: a Permitted that has received a failing result has returned the
\* guard-failure error on receiving it: the failing result is the last one it
\* collected, however many guards of the call have not finished.
C10_ReturnsOnFirstFailure ==
    \A c \in OnRecord :
        FirstFailing(c) # 0 =>
            /\ calls[c].status = "returned"
            /\ Class(calls[c].perm) = "guardfailed"
            /\ FirstFailing(c) = Len(calls[c].got)

\* Permitted has returned the error while a guard of the same call has not
\* run yet.
C10_Witness ==
    \E c \in OnRecord :
        /\ calls[c].status = "returned"
        /\ Class(calls[c].perm) = "guardfailed"
        /\ Len(calls[c].got) = 1
        /\ \E i \in 1..Len(calls[c].tasks) : calls[c].tasks[i].st = "running"

\* ------------------------------------------------------- claims, scenario
Goals(n) == [k \in 1..n |-> calls[k].goal]

\* C9: in the scenario, Transition(running), Transition(done),
\* Transition(idle) return nil with State running, nil with State done, and
\* the no-rules error with State still done.
C9_Scenario ==
    /\ /\ Len(calls) >= 1 /\ calls[1].status = "returned"
       /\ Goals(1) = <<NewState("running")>>
       => calls[1].ret = Nil /\ calls[1].post = NewState("running")
    /\ /\ Len(calls) >= 2 /\ calls[2].status = "returned"
       /\ Goals(2) = <<NewState("running"), NewState("done")>>
       => calls[2].ret = Nil /\ calls[2].post = NewState("done")
    /\ /\ Len(calls) >= 3 /\ calls[3].status = "returned"
       /\ Goals(3) = <<NewState("running"), NewState("done"), NewState("idle")>>
       => /\ Class(calls[3].ret) = "norules"
          /\ calls[3].post = NewState("done")
    /\ \A c \in OnRecord : calls[c].status = "returned" /\ c = Len(calls)
          => calls[c].post = State

C9_Witness ==
    /\ Len(calls) = 3 /\ calls[3].status = "returned"
    /\ Goals(3) = <<NewState("running"), NewState("done"), NewState("idle")>>
    /\ State = NewState("done")

\* ------------------------------------------------------ claims, goroutines
\* Call c has a guard that never returns.
HasStall(c) == \E i \in 1..Len(calls[c].guards) : ~Returns(calls[c].guards[i])

\* C11 as stated: a Permitted call one of whose guards never returns never
\* returns.
C11_AsStated ==
    \A c \in OnRecord : HasStall(c) => ~Returned(c)

\* C11: a Permitted call one of whose guards never returns never returns
\* nil; it returns only when another guard of the call fails, with the
\* guard-failure error, and is still collecting otherwise, whatever results
\* it has received.
C11_StallsUnlessAGuardFails ==
    \A c \in OnRecord :
        HasStall(c) =>
            /\ Len(calls[c].got) < Len(calls[c].guards)
            /\ Returned(c) =>
                   /\ FirstFailing(c) # 0
                   /\ Class(calls[c].perm) = "guardfailed"
            /\ FirstFailing(c) = 0 => calls[c].status = "collecting"

\* A call has received the result of every guard but the one that never
\* returns, and is stalled in its receive.
C11_Witness ==
    \E c \in OnRecord :
        /\ HasStall(c)
        /\ Len(calls[c].guards) >= 2
        /\ Len(calls[c].got) = Len(calls[c].guards) - 1
        /\ calls[c].status = "collecting"
        /\ \A i \in 1..Len(calls[c].tasks) : calls[c].tasks[i].st # "sending"

\* C12: under fair scheduling every Permitted call all of whose guards
\* return does return; while it is blocked in its receive it has received no
\* failing result and fewer results than it has guards.
C12_EveryCallReturns ==
    /\ [](\A c \in OnRecord :
            calls[c].status = "collecting" =>
                /\ FirstFailing(c) = 0
                /\ Len(calls[c].got) < Len(calls[c].guards))
    /\ \A k \in 1..FairCalls :
           (Len(calls) >= k /\ ~HasStall(k)) ~> (Len(calls) >= k /\ Returned(k))

\* A call with two guards that return has waited for both results and has
\* returned nil.
C12_Witness ==
    \E c \in OnRecord :
        /\ ~HasStall(c)
        /\ Len(calls[c].guards) = 2
        /\ Len(calls[c].got) = 2
        /\ Returned(c) /\ calls[c].perm = Nil

\* C13 as stated: under fair scheduling, once a Permitted call has returned,
\* every goroutine it launched whose guard returns eventually finishes; none
\* stays blocked for ever.
C13_AsStated ==
    \A k \in 1..FairCalls : \A i \in 1..MaxGuards :
        (/\ Len(calls) >= k /\ Returned(k)
         /\ i <= Len(calls[k].tasks) /\ Returns(calls[k].tasks[i].g))
        ~> (/\ Len(calls) >= k /\ i <= Len(calls[k].tasks)
            /\ calls[k].tasks[i].st = "done")

\* Permitted has returned on a failing result, and another goroutine of the
\* call has run its guard and is blocked in the send on the channel of the
\* call, from which nobody receives any more.
C13_Leak ==
    \E c \in OnRecord : \E i \in 1..Len(calls[c].tasks) :
        /\ Returned(c)
        /\ Class(calls[c].perm) = "guardfailed"
        /\ calls[c].tasks[i].st = "sending"
        /\ \A d \in OnRecord : ~Returned(d) => calls[d].ch # calls[c].ch

\* ------------------------------------------------- claims, Machine and rules
\* C14: a Permitted call that found its Transition has one goroutine for each
\* position of the guard list registered for it, with the guard of that
\* position, a guard registered twice having two; a goroutine that has run
\* has given its guard the start and goal of the call, whatever the State of
\* the Machine is by then; and the call receives at most one result from each
\* position.
C14_OneInvocationPerPosition ==
    \A c \in OnRecord :
        calls[c].ok =>
            /\ Len(calls[c].tasks) = Len(rules[Attempt(c)])
            /\ \A i \in 1..Len(calls[c].tasks) :
                   /\ calls[c].tasks[i].g = rules[Attempt(c)][i]
                   /\ calls[c].tasks[i].st # "running" =>
                          /\ calls[c].tasks[i].with = <<calls[c].start, calls[c].goal>>
                          /\ calls[c].tasks[i].val = Answer(c, i)
            /\ \A j \in 1..Len(calls[c].got) : \A k \in 1..Len(calls[c].got) :
                   calls[c].got[j].pos = calls[c].got[k].pos => j = k

\* A guard registered twice for one Transition has been invoked twice by one
\* call, whose start is not the State of the Machine.
C14_Witness ==
    \E c \in OnRecord :
        /\ Len(calls[c].guards) = 2
        /\ calls[c].guards[1] = calls[c].guards[2]
        /\ \A i \in 1..2 : calls[c].tasks[i].st # "running"
        /\ calls[c].start # State

\* C15: a step r.AddRule(t, g1, ..., gk) with k >= 1 leaves t a key whose
\* list is its previous list (empty when t was no key) followed by g1, ...,
\* gk in that order, duplicates included, and leaves every other key and its
\* list as they were.
C15_AddRuleAppends ==
    [][\A t \in RuleTransitions : \A gs \in SeqUpTo(CallerGuards, MaxGuards) :
          (gs # <<>> /\ DoAddRule(t, gs)) =>
              /\ DOMAIN rules' = (DOMAIN rules) \cup {t}
              /\ rules'[t] = Lookup(rules, t) \o gs
              /\ \A k \in (DOMAIN rules) \ {t} : rules'[k] = rules[k]]_vars

\* AddRule has left a Transition with the same caller's guard twice.
C15_Witness ==
    \E t \in DOMAIN rules :
        /\ Len(rules[t]) = 2
        /\ rules[t][1] = rules[t][2]
        /\ rules[t][1] \in CallerGuards
        /\ nCalls = 0

\* C16 as stated: for a Transition t that is no key of the Ruleset, after
\* r.AddRule(t) with no guards t is a key with an empty list, and
\* Permitted(t.Origin, t.Exit) returns nil.
C16_AsStated ==
    \A t \in RuleTransitions :
        t \notin DOMAIN rules =>
            LET r == AddRule(rules, t, <<>>)
                p == PermittedBegin(r, NewState(Origin(t)), NewState(Exit(t)), nCalls + 1)
            IN /\ MapGet(r, t).ok
               /\ MapGet(r, t).guards = <<>>
               /\ p.status = "returned" /\ p.perm = Nil

\* Permitted has returned the no-rules error for a Transition that AddRule
\* with no guards leaves out of the Ruleset.
C16_NoKeyCreated ==
    \E c \in OnRecord :
        /\ Returned(c)
        /\ Class(calls[c].perm) = "norules"
        /\ Attempt(c) \in RuleTransitions
        /\ ~MapGet(AddRule(rules, Attempt(c), <<>>), Attempt(c)).ok

\* The reverse of the Transition call c attempts.
Reverse(c) == T(ID(calls[c].goal), ID(calls[c].start))

\* C17: when (A, B) is registered, (B, A) is not and A differs from B, a
\* Permitted(B, A) has returned the no-rules error without running a guard,
\* and a Transition(A) of a Machine in State B has returned that error and
\* left the Machine in B, whatever guards (A, B) carries.
C17_Directional ==
    \A c \in OnRecord :
        (/\ ID(calls[c].start) # ID(calls[c].goal)
         /\ Reverse(c) \in DOMAIN rules
         /\ Attempt(c) \notin DOMAIN rules) =>
            /\ Returned(c)
            /\ Class(calls[c].perm) = "norules"
            /\ calls[c].tasks = <<>>
            /\ calls[c].kind = "Transition" =>
                   /\ calls[c].post = calls[c].start
                   /\ calls[c].ret = calls[c].perm

\* A Machine that moved from idle to running under a rule with a caller's
\* guard was asked to move back to idle, and stays in running.
C17_Witness ==
    \E c \in OnRecord :
        /\ calls[c].kind = "Transition"
        /\ calls[c].start = NewState("running") /\ calls[c].goal = NewState("idle")
        /\ Reverse(c) \in DOMAIN rules /\ Attempt(c) \notin DOMAIN rules
        /\ rules[Reverse(c)][1] \in CallerGuards
        /\ Class(calls[c].ret) = "norules"
        /\ State = NewState("running")

\* The step begins a standalone Permitted call or is taken while one is in
\* progress.
PermittedStep ==
    /\ calls' # <<>>
    /\ calls'[Len(calls')].kind = "Permitted"
    /\ \/ nCalls' # nCalls
       \/ calls # <<>> /\ calls[Len(calls)].status = "collecting"

\* C18: no step of a call or of a guard goroutine changes the Ruleset; no
\* step of a standalone Permitted, from its call to its return, changes the
\* State of the Machine; and a step that changes the Ruleset (AddRule,
\* AddTransition, CreateRuleset) changes neither the State nor any call.
C18_Frame ==
    [][/\ (calls' # calls \/ nCalls' # nCalls) => rules' = rules
       /\ PermittedStep => State' = State
       /\ rules' # rules =>
              /\ State' = State
              /\ calls' = calls /\ nCalls' = nCalls]_vars

\* A standalone Permitted for a goal other than the State of the Machine has
\* returned nil after collecting a result, and the Machine is where it started.
C18_Witness ==
    \E c \in OnRecord :
        /\ calls[c].kind = "Permitted"
        /\ Returned(c) /\ calls[c].perm = Nil
        /\ calls[c].got # <<>>
        /\ calls[c].goal # State
        /\ State = InitialState
        /\ rules # EmptyRuleset

\* ------------------------------------------------------------ claims, race
\* Call c was in flight together with another call.
Overlapped(c) ==
    \/ calls[c].inflight # {}
    \/ \E d \in OnRecord : calls[c].n \in calls[d].inflight

\* Transition call c has returned nil, and so has written its goal.
Committed(c) ==
    /\ calls[c].kind = "Transition"
    /\ Returned(c)
    /\ calls[c].ret = Nil

\* C19: a Transition call that returned nil has written its goal after
\* Permitted returned nil for the State it read when it was entered; when no
\* other call was in flight with it, that State is the State immediately
\* before the write, so only calls that overlap commit a pair that was never
\* checked.
C19_UncheckedOnlyWhenOverlapped ==
    \A c \in OnRecord :
        Committed(c) =>
            /\ calls[c].post = calls[c].goal
            /\ calls[c].ok /\ calls[c].perm = Nil
            /\ \A k \in 1..Len(calls[c].got) : calls[c].got[k].val.isNil
            /\ ~Overlapped(c) => calls[c].pre = calls[c].start

\* Two calls read the same State and both returned nil; the later write
\* moved the Machine along a pair that was never checked and is no key of
\* the Ruleset.
C19_Witness ==
    \E c \in OnRecord : \E d \in OnRecord :
        /\ c # d
        /\ Committed(c) /\ Committed(d)
        /\ calls[c].start = calls[d].start
        /\ calls[c].pre = calls[d].post
        /\ calls[c].pre # calls[c].start
        /\ T(ID(calls[c].pre), ID(calls[c].goal)) \notin DOMAIN rules
        /\ State = calls[c].goal

\* ---------------------------------------------------- claims, serialized
\* The identities reachable from those of S along the keys of the Ruleset.
RECURSIVE ReachFrom(_)
ReachFrom(S) ==
    LET more == S \cup {k.E : k \in {t \in DOMAIN rules : t.O \in S}}
    IN IF more = S THEN S ELSE ReachFrom(more)

\* C20: with the Transition calls serialized, a step changes the State from
\* s to g only as the return of a Transition call for (s, g), (s, g) being
\* a key of the Ruleset, after every guard registered for it was invoked by
\* that call and answered nil for (s, g); and the State is always the initial
\* State or reachable from it along keys of the Ruleset.
C20_MovesAlongRules ==
    /\ [](ID(State) \in ReachFrom({ID(InitialState)}))
    /\ [][State' # State =>
             LET c == calls'[Len(calls')]
                 key == T(ID(State), ID(State'))
             IN /\ ReturnsNow
                /\ c.kind = "Transition"
                /\ c.start = State /\ c.goal = State'
                /\ key \in DOMAIN rules
                /\ c.guards = rules[key]
                /\ Len(c.got) = Len(c.guards)
                /\ \A i \in 1..Len(c.guards) :
                       /\ GuardApply(c.guards[i], State, State').isNil
                       /\ \E k \in 1..Len(c.got) :
                              /\ c.got[k].from = c.n /\ c.got[k].pos = i
                              /\ c.got[k].val.isNil]_vars

\* The Machine has moved from idle to running and on to done, along two keys
\* of the Ruleset.
C20_Witness ==
    /\ State = NewState("done")
    /\ \E c \in OnRecord :
           /\ Committed(c)
           /\ calls[c].start = NewState("running") /\ calls[c].goal = State
           /\ calls[c].got # <<>>
====
